---- MODULE Spec2Model ----
(***************************************************************************)
(* A model of the image editor of src/app.py: the pixel transforms of      *)
(* apply_edits (enhance, effect, hue shift, colour balance), the logo and  *)
(* caption stages, the preview block of the page script and the batch      *)
(* export loop process_batch.                                              *)
(*                                                                         *)
(* Numbers.  Slider factors are kept as integer numerators over ScaleDen   *)
(* (factor = n / ScaleDen); with ScaleDen a power of two every product the *)
(* code forms in floating point is exact, so the integer arithmetic below  *)
(* is the arithmetic of the code.  Hue shifts and logo scales are kept in  *)
(* hundredths, the step of their sliders.  Where a floating-point result   *)
(* is only known up to its last bit (the truncations int(r*255) of         *)
(* adjust_hue), the operator returns the set of values the truncation can  *)
(* give.                                                                   *)
(*                                                                         *)
(* Images.  An image is a record: its size (w, h), a row of sample pixels  *)
(* px (each <<r, g, b>>), and the overlays painted on it, in order         *)
(* (layers: pasted logos and drawn texts with their coordinates).          *)
(***************************************************************************)
EXTENDS Integers, Sequences, FiniteSets, TLC

VARIABLES
    build,          \* behaviour of the installed imaging library (fixed per run)
    inp,            \* inputs of the function under study (pure-function specifications)
    ret,            \* its result
    ui,             \* widget state of the page: uploads, sliders, caption, canvas
    pc,             \* position of the page script / process_batch
    logo_position,  \* app.py:151, 185
    idx,            \* loop variable i of process_batch
    image,          \* working image of the current iteration
    stages,         \* stages run on the working image since it was opened
    zip_entries,    \* entries written to zip_file so far
    result,         \* what process_batch gave its caller
    pos_log         \* positions handed to add_logo by process_batch

vars == <<build, inp, ret, ui, pc, logo_position, idx, image, stages,
          zip_entries, result, pos_log>>

batchVars == <<ui, pc, logo_position, idx, image, stages, zip_entries, result, pos_log>>

-----------------------------------------------------------------------------
(* Bounds of the model *)

\* factors are multiples of 1/ScaleDen
ScaleDen == 4
\* channel values of the sampled pixels are the multiples of ChanStep, and 255
ChanStep == 51
\* largest number of uploaded files
MaxFiles == 2

(* Program constants *)

\* upper end of the sliders of app.py:131-137
MaxFactor == 3
\* max_width of the preview
max_width == 1000
\* margin of add_lower_third
margin == 20
\* JPEG quality of the export
quality == 95

\* Python's None
NONE == [none |-> TRUE]

\* an (x, y) offset
Pos(x, y) == [x |-> x, y |-> y]

\* an exception that left the function
Raised(name) == [error |-> name]

Min(a, b) == IF a < b THEN a ELSE b
Max(a, b) == IF a > b THEN a ELSE b

Channels == 0..255
Factors == 0..(MaxFactor * ScaleDen)
One == ScaleDen

\* the imaging library rounds a float lookup table to the nearest integer
\* (newer releases) or truncates it (older ones); an "L" image given a short
\* palette keeps a grey ramp (older) or zeros (newer) in the entries not set
Builds == [lut : {"round", "trunc"}, pal : {"ramp", "zero"}]

GridChannels == {c \in Channels : c % ChanStep = 0} \cup {255}
GridPixels == GridChannels \X GridChannels \X GridChannels

-----------------------------------------------------------------------------
(* Pixel arithmetic *)

\* image.convert("L"): ITU-R 601-2 luma, as the library computes it
ToL(p) == (p[1] * 19595 + p[2] * 38470 + p[3] * 7471 + 32768) \div 65536

Gray(p) == <<ToL(p), ToL(p), ToL(p)>>

\* Image.blend(degenerate, image, factor) on one channel, as ImageEnhance uses it:
\* in1 + factor * (in2 - in1), clipped to 0..255 and truncated
Blend(in1, in2, f) ==
    LET t == ScaleDen * in1 + f * (in2 - in1)
    IN  IF f = 0 THEN in1
        ELSE IF f = One THEN in2
        ELSE IF t <= 0 THEN 0
        ELSE IF t >= 255 * ScaleDen THEN 255
        ELSE t \div ScaleDen

BlendPixel(d, p, f) == <<Blend(d[1], p[1], f), Blend(d[2], p[2], f), Blend(d[3], p[3], f)>>

MapPx(px, Op(_)) == [k \in DOMAIN px |-> Op(px[k])]

RECURSIVE SumL(_, _)
SumL(px, k) == IF k = 0 THEN 0 ELSE ToL(px[k]) + SumL(px, k - 1)

\* int(ImageStat.Stat(image.convert("L")).mean[0] + 0.5)
MeanL(px) == (2 * SumL(px, Len(px)) + Len(px)) \div (2 * Len(px))

\* ImageEnhance.Color(image).enhance(saturation)
EnhanceColor(img, f) ==
    [img EXCEPT !.px = MapPx(img.px, LAMBDA p : BlendPixel(Gray(p), p, f))]

\* ImageEnhance.Brightness(image).enhance(brightness)
EnhanceBrightness(img, f) ==
    [img EXCEPT !.px = MapPx(img.px, LAMBDA p : BlendPixel(<<0, 0, 0>>, p, f))]

\* ImageEnhance.Contrast(image).enhance(contrast)
EnhanceContrast(img, f) ==
    LET m == MeanL(img.px)
    IN  [img EXCEPT !.px = MapPx(img.px, LAMBDA p : BlendPixel(<<m, m, m>>, p, f))]

\* the palette built by the loop of app.py:21-23: entry i for i in range(255)
SepiaEntries == 255

SepiaEntry(i) == <<(i * 240) \div 255, (i * 200) \div 255, (i * 145) \div 255>>

\* image.putpalette(sepia) and convert("RGB") on luminance i
SepiaLookup(i, b) ==
    IF i < SepiaEntries THEN SepiaEntry(i)
    ELSE IF b.pal = "ramp" THEN <<i, i, i>>
    ELSE <<0, 0, 0>>

\* the effect stage of apply_edits
ApplyEffect(img, effect, b) ==
    IF effect = "Black & White" THEN
        [img EXCEPT !.px = MapPx(img.px, Gray)]
    ELSE IF effect = "Invert" THEN
        [img EXCEPT !.px = MapPx(img.px, LAMBDA p : <<255 - p[1], 255 - p[2], 255 - p[3]>>)]
    ELSE IF effect = "Sepia" THEN
        [img EXCEPT !.px = MapPx(img.px, LAMBDA p : SepiaLookup(ToL(p), b))]
    ELSE img

\* PointEntry without the min(255, .): the product stored in 8 bits
PointEntryWrap(i, s, b) == ((i * s) \div ScaleDen) % 256

\* one entry of the table of point(lambda i: min(255, i * scale)), as the
\* library stores it
PointEntry(i, s, b) ==
    LET n == i * s
        q == n \div ScaleDen
        r == n % ScaleDen
    IN  IF n >= 255 * ScaleDen THEN 255
        ELSE IF b.lut = "trunc" THEN q
        ELSE IF 2 * r > ScaleDen THEN q + 1
        ELSE IF 2 * r < ScaleDen THEN q
        ELSE IF q % 2 = 0 THEN q ELSE q + 1

adjust_color_balance(img, r_scale, g_scale, b_scale, b) ==
    [img EXCEPT !.px = MapPx(img.px, LAMBDA p :
        <<PointEntry(p[1], r_scale, b), PointEntry(p[2], g_scale, b),
          PointEntry(p[3], b_scale, b)>>)]

-----------------------------------------------------------------------------
(* Hue shift.  colorsys works on floats; here a hue is an integer count of  *)
(* units 1/(600*R) of the colour wheel, R = max - min of the pixel, so that *)
(* a shift of j hundredths is 6*R*j units and every value is exact.         *)

Max3(p) == Max(p[1], Max(p[2], p[3]))
Min3(p) == Min(p[1], Min(p[2], p[3]))

\* colorsys.rgb_to_hls: the hue of a pixel with max # min
HueOf(p) ==
    LET M == Max3(p)
        R == Max3(p) - Min3(p)
        h6 == IF p[1] = M THEN p[2] - p[3]
              ELSE IF p[2] = M THEN 2 * R + (p[3] - p[1])
              ELSE 4 * R + (p[1] - p[2])
    IN  (100 * h6) % (600 * R)

\* ShiftHue clamping the shifted hue to [0, 1] instead of wrapping it
ShiftHueClamp(h, shift, R) == Max(0, Min(600 * R, h + 6 * R * shift))

\* h = (h + shift) % 1.0
ShiftHue(h, shift, R) == (h + 6 * R * shift) % (600 * R)

\* colorsys._v, times 255, in hundredths of a channel unit (m1 = min/255,
\* m2 = max/255)
HlsV(m, M, hue) ==
    LET R == M - m
        h == hue % (600 * R)
    IN  IF h < 100 * R THEN 100 * m + h
        ELSE IF h < 300 * R THEN 100 * M
        ELSE IF h < 400 * R THEN 100 * m + (400 * R - h)
        ELSE 100 * m

\* int(x * 255) for a float x whose exact value times 255 is c hundredths:
\* floor, except that a product that is exactly an integer k may come out
\* just below k and truncate to k - 1
TruncOutcomes(c) ==
    IF c % 100 # 0 THEN {c \div 100}
    ELSE IF c = 0 THEN {0}
    ELSE {c \div 100, (c \div 100) - 1}

\* lines 40-44 of adjust_hue on one pixel: the pixels it can write
HuePixelOutcomes(p, shift) ==
    LET M == Max3(p)
        m == Min3(p)
        R == M - m
    IN  IF R = 0 THEN
            \* s = 0: hls_to_rgb returns (l, l, l), one float for the three channels
            {<<c, c, c>> : c \in TruncOutcomes(100 * M)}
        ELSE
            LET h == ShiftHue(HueOf(p), shift, R)
            IN  TruncOutcomes(HlsV(m, M, h + 200 * R))
                \X TruncOutcomes(HlsV(m, M, h))
                \X TruncOutcomes(HlsV(m, M, h + 400 * R))

RECURSIVE HueRows(_, _, _)
HueRows(px, k, shift) ==
    IF k = 0 THEN {<<>>}
    ELSE {Append(s, q) : s \in HueRows(px, k - 1, shift),
                         q \in HuePixelOutcomes(px[k], shift)}

\* adjust_hue: the images it can return
adjust_hue(img, shift) ==
    {[img EXCEPT !.px = s] : s \in HueRows(img.px, Len(img.px), shift)}

\* apply_edits calling adjust_hue whatever the shift
apply_edits_AlwaysHue(img, prm, b) ==
    LET e3 == EnhanceContrast(EnhanceBrightness(EnhanceColor(img, prm.saturation),
                                                prm.brightness), prm.contrast)
    IN  {adjust_color_balance(x, prm.r_scale, prm.g_scale, prm.b_scale, b) :
            x \in adjust_hue(ApplyEffect(e3, prm.effect, b), prm.hue_shift)}

\* apply_edits: the images it can return.  prm holds the sliders.
apply_edits(img, prm, b) ==
    LET e1 == EnhanceColor(img, prm.saturation)
        e2 == EnhanceBrightness(e1, prm.brightness)
        e3 == EnhanceContrast(e2, prm.contrast)
        e4 == ApplyEffect(e3, prm.effect, b)
        hs == IF prm.hue_shift # 0 THEN adjust_hue(e4, prm.hue_shift) ELSE {e4}
    IN  {adjust_color_balance(x, prm.r_scale, prm.g_scale, prm.b_scale, b) : x \in hs}

-----------------------------------------------------------------------------
(* Logo and caption *)

\* FONTS of fonts_config.py
FONTS == {"DejaVu Sans", "Roboto", "Times New Roman", "Courier New"}

\* load_font: the named face, or the built-in default font on any failure
load_font(name, size) ==
    IF name \in FONTS THEN [face |-> name, size |-> size]
    ELSE [face |-> "default", size |-> 10]

\* draw.textbbox((0, 0), text, font): width and height of the rendered text.
\* The metrics stand for those of the font file: half the size per character
\* wide, the size high.
TextSize(text, font) == <<(Len(text) * font.size) \div 2, font.size>>

\* logo_w, logo_h of add_logo; scale in hundredths
LogoSize(img, logo, scale) ==
    LET logo_w == (img.w * scale) \div 100
    IN  <<logo_w, (logo_w * logo.h) \div logo.w>>

\* logo.resize refuses a size with a zero side (ValueError)
AddLogoRaises(img, logo_file, scale, pos) ==
    /\ logo_file # NONE
    /\ pos # NONE
    /\ \/ LogoSize(img, logo_file, scale)[1] < 1
       \/ LogoSize(img, logo_file, scale)[2] < 1

\* add_logo testing the logo alone: a missing position pastes at the origin
add_logo_NoPosCheck(img, logo_file, scale, pos) ==
    IF logo_file = NONE THEN img
    ELSE [img EXCEPT !.layers = Append(@,
            [kind |-> "logo", at |-> IF pos = NONE THEN Pos(0, 0) ELSE pos,
             w |-> LogoSize(img, logo_file, scale)[1],
             h |-> LogoSize(img, logo_file, scale)[2]])]

\* add_logo pasting the logo a second time
add_logo_PasteTwice(img, logo_file, scale, pos) ==
    LET once == add_logo_NoPosCheck(img, logo_file, scale, pos)
    IN  IF logo_file = NONE \/ pos = NONE THEN img
        ELSE add_logo_NoPosCheck(once, logo_file, scale, pos)

add_logo(img, logo_file, scale, pos) ==
    IF logo_file = NONE \/ pos = NONE THEN img
    ELSE [img EXCEPT !.layers = Append(@,
            [kind |-> "logo", at |-> pos,
             w |-> LogoSize(img, logo_file, scale)[1],
             h |-> LogoSize(img, logo_file, scale)[2]])]

\* position.lower()
Lower(position) ==
    CASE position \in {"Bottom", "BOTTOM", "bottom"} -> "bottom"
      [] position \in {"Top", "TOP", "top"} -> "top"
      [] position \in {"Left", "LEFT", "left"} -> "left"
      [] position \in {"Right", "RIGHT", "right"} -> "right"
      [] position = "Center" -> "center"
      [] position = "Middle" -> "middle"
      [] OTHER -> position

\* TextAnchor with the top anchor in the final else
TextAnchorElseTop(img_w, img_h, text_w, text_h, position) ==
    IF Lower(position) \in {"bottom"} THEN
        <<(img_w - text_w) \div 2, img_h - text_h - margin>>
    ELSE IF Lower(position) = "left" THEN
        <<margin, img_h - text_h - margin>>
    ELSE IF Lower(position) = "right" THEN
        <<img_w - text_w - margin, img_h - text_h - margin>>
    ELSE
        <<(img_w - text_w) \div 2, margin>>

\* lines 80-92 of add_lower_third: where the text is drawn
TextAnchor(img_w, img_h, text_w, text_h, position) ==
    IF Lower(position) = "bottom" THEN
        <<(img_w - text_w) \div 2, img_h - text_h - margin>>
    ELSE IF Lower(position) = "top" THEN
        <<(img_w - text_w) \div 2, margin>>
    ELSE IF Lower(position) = "left" THEN
        <<margin, img_h - text_h - margin>>
    ELSE IF Lower(position) = "right" THEN
        <<img_w - text_w - margin, img_h - text_h - margin>>
    ELSE
        <<(img_w - text_w) \div 2, img_h - text_h - margin>>

add_lower_third(img, text, font_name, font_size, color, position) ==
    IF text = <<>> THEN img
    ELSE
        LET font == load_font(font_name, font_size)
            sz == TextSize(text, font)
        IN  [img EXCEPT !.layers = Append(@,
                [kind |-> "text",
                 at |-> Pos(TextAnchor(img.w, img.h, sz[1], sz[2], position)[1],
                            TextAnchor(img.w, img.h, sz[1], sz[2], position)[2]),
                 text |-> text, font |-> font, fill |-> color])]

-----------------------------------------------------------------------------
(* The page: widgets and their values *)

Image1(w, h, px) == [w |-> w, h |-> h, px |-> px, layers |-> <<>>]

IdentityParams ==
    [saturation |-> One, brightness |-> One, contrast |-> One, effect |-> "None",
     hue_shift |-> 0, r_scale |-> One, g_scale |-> One, b_scale |-> One]

\* the page before any upload: no files, no logo, empty caption, nothing on
\* the canvas; the selectboxes on their first options
UiStart(prm) ==
    [uploaded_files |-> <<>>, logo_file |-> NONE, prm |-> prm, logo_scale |-> 5,
     lower_text |-> <<>>, font_name |-> "DejaVu Sans", font_size |-> 40,
     font_color |-> "#FFFFFF", lower_pos |-> "Bottom", canvas |-> NONE]

BatchStart(prm) ==
    /\ ui = UiStart(prm)
    /\ pc = "idle"
    /\ logo_position = NONE
    /\ idx = 0
    /\ image = NONE
    /\ stages = <<>>
    /\ zip_entries = <<>>
    /\ result = NONE
    /\ pos_log = <<>>

-----------------------------------------------------------------------------
(* SpecFn: the functions of app.py applied to inputs drawn from small sets.  *)
(* Each behaviour makes one call: inp holds its arguments and ret what it    *)
(* gave.                                                                     *)

SamplePixels == {<<a, b, c>> : a \in {0, 2 * ChanStep, 255}, b \in {0, 2 * ChanStep, 255},
                               c \in {0, 2 * ChanStep, 255}}

FnImages ==
    {Image1(100, 100, <<p>>) : p \in SamplePixels}
    \cup {Image1(200, 100, <<<<255, 0, 0>>, <<0, ChanStep, 255>>>>),
          Image1(2000, 1000, <<<<ChanStep, ChanStep, ChanStep>>, <<255, 255, 255>>>>)}

GrayImages == {Image1(100, 100, <<<<i, i, i>>>>) : i \in Channels}

Effects == {"None", "Black & White", "Invert", "Sepia", "Blur", "sepia", ""}

FnParams ==
    {[saturation |-> f[1], brightness |-> f[2], contrast |-> f[3], effect |-> e,
      hue_shift |-> hs, r_scale |-> sc[1], g_scale |-> sc[2], b_scale |-> sc[3]] :
        f \in {<<One, One, One>>, <<One + 1, One \div 2, 2 * One>>},
        e \in {"None", "Invert", "Sepia", "Blur"},
        hs \in {0, 50, -25},
        sc \in {<<One, One, One>>, <<One + 2, One \div 2, MaxFactor * One>>}}

Positions == {"Bottom", "Top", "Left", "Right", "bottom", "TOP", "Center", "Middle", ""}

Logos == {[w |-> 100, h |-> 50], [w |-> 400, h |-> 10]}

InitFn ==
    /\ build \in Builds
    /\ inp = [fn |-> "none"]
    /\ ret = [fn |-> "none"]
    /\ BatchStart(IdentityParams)

CallApplyEdits ==
    /\ inp.fn = "none"
    /\ \E img \in FnImages, prm \in FnParams :
        /\ inp' = [fn |-> "apply_edits", img |-> img, prm |-> prm]
        /\ \E out \in apply_edits(img, prm, build) :
               ret' = [fn |-> "apply_edits", out |-> out]
        /\ UNCHANGED <<build, batchVars>>

\* lines 16-26 alone
CallEffect ==
    /\ inp.fn = "none"
    /\ \E img \in FnImages \cup GrayImages, e \in Effects :
        /\ inp' = [fn |-> "effect", img |-> img, effect |-> e]
        /\ ret' = [fn |-> "effect", out |-> ApplyEffect(img, e, build)]
        /\ UNCHANGED <<build, batchVars>>

CallColorBalance ==
    /\ inp.fn = "none"
    /\ \E v \in Channels, s \in Factors : \E t \in {One, s} :
        LET img == Image1(100, 100, <<<<v, 255 - v, v>>>>)
        IN  /\ inp' = [fn |-> "adjust_color_balance", img |-> img, scales |-> <<s, t, t>>]
            /\ ret' = [fn |-> "adjust_color_balance",
                       out |-> adjust_color_balance(img, s, t, t, build)]
            /\ UNCHANGED <<build, batchVars>>

\* adjust_hue on the same image with shift 0.5 and with shift -0.5
CallHuePair ==
    /\ inp.fn = "none"
    /\ \E p \in GridPixels :
        LET img == Image1(100, 100, <<p>>)
        IN  /\ inp' = [fn |-> "adjust_hue", img |-> img]
            /\ \E a \in adjust_hue(img, 50), b \in adjust_hue(img, -50) :
                   ret' = [fn |-> "adjust_hue", plus |-> a, minus |-> b]
            /\ UNCHANGED <<build, batchVars>>

CallAddLogo ==
    /\ inp.fn = "none"
    /\ \E img \in FnImages, logo \in Logos \cup {NONE}, scale \in {1, 5, 25},
       pos \in {NONE, Pos(0, 0), Pos(10, 10), Pos(-5, 3000)} :
        /\ inp' = [fn |-> "add_logo", img |-> img, logo_file |-> logo,
                   scale |-> scale, pos |-> pos]
        /\ ret' = [fn |-> "add_logo",
                   out |-> IF AddLogoRaises(img, logo, scale, pos) THEN Raised("ValueError")
                           ELSE add_logo(img, logo, scale, pos)]
        /\ UNCHANGED <<build, batchVars>>

CallAddLowerThird ==
    /\ inp.fn = "none"
    /\ \E img \in {Image1(100, 100, <<<<255, 0, 0>>>>), Image1(2000, 1000, <<<<0, 0, 0>>>>)},
       text \in {<<>>, <<"H", "i">>}, font_name \in {"Roboto", "Comic Sans"},
       font_size \in {10, 40, 100}, color \in {"#FFFFFF", "#102030"},
       position \in Positions :
        /\ inp' = [fn |-> "add_lower_third", img |-> img, text |-> text,
                   font_name |-> font_name, font_size |-> font_size, color |-> color,
                   position |-> position]
        /\ ret' = [fn |-> "add_lower_third",
                   out |-> add_lower_third(img, text, font_name, font_size, color, position)]
        /\ UNCHANGED <<build, batchVars>>

NextFn ==
    \/ CallApplyEdits
    \/ CallEffect
    \/ CallColorBalance
    \/ CallHuePair
    \/ CallAddLogo
    \/ CallAddLowerThird

SpecFn == InitFn /\ [][NextFn]_vars

-----------------------------------------------------------------------------
(* Spec: the page script.  The user fills the widgets while the page is     *)
(* idle; a run of the script with the button pressed executes the preview   *)
(* block and then process_batch, one stage of one image per step.           *)

BadFile == [decodable |-> FALSE, img |-> NONE]
GoodFile(img) == [decodable |-> TRUE, img |-> img]

\* a wide photograph (its preview is downscaled) and a small picture
FileA == GoodFile(Image1(2000, 1000, <<<<255, ChanStep, 0>>, <<255, 255, 255>>>>))
FileC == GoodFile(Image1(60, 40, <<<<0, 2 * ChanStep, 0>>>>))

Files == {BadFile, FileA, FileC}

\* slider settings of the runs: everything neutral; sepia with stronger
\* colours; inverted with the hue turned half way
BatchParams ==
    {IdentityParams,
     [saturation |-> 2 * One, brightness |-> One, contrast |-> 2 * One, effect |-> "Sepia",
      hue_shift |-> 0, r_scale |-> One, g_scale |-> 2 * One, b_scale |-> 0],
     [IdentityParams EXCEPT !.effect = "Invert", !.hue_shift = 50]}

DragPositions == {Pos(100, 50), Pos(900, 400)}

Init ==
    /\ build \in Builds
    /\ inp = [fn |-> "none"]
    /\ ret = [fn |-> "none"]
    /\ \E prm \in BatchParams : BatchStart(prm)

N == Len(ui.uploaded_files)

\* st.file_uploader: one more image
Upload ==
    /\ pc = "idle"
    /\ N < MaxFiles
    /\ \E f \in Files : ui' = [ui EXCEPT !.uploaded_files = Append(@, f)]
    /\ UNCHANGED <<build, inp, ret, pc, logo_position, idx, image, stages,
                   zip_entries, result, pos_log>>

\* the logo uploader and the logo size slider
SetLogo ==
    /\ pc = "idle"
    /\ ui.logo_file = NONE
    /\ \E l \in Logos, sc \in {5, 25} :
           ui' = [ui EXCEPT !.logo_file = l, !.logo_scale = sc]
    /\ UNCHANGED <<build, inp, ret, pc, logo_position, idx, image, stages,
                   zip_entries, result, pos_log>>

\* the user moves an object on the canvas; the canvas is on the page only
\* when there are a first image and a logo
DragLogo ==
    /\ pc = "idle"
    /\ N > 0
    /\ ui.logo_file # NONE
    /\ ui.canvas = NONE
    /\ \E at \in DragPositions : ui' = [ui EXCEPT !.canvas = [left |-> at.x, top |-> at.y]]
    /\ UNCHANGED <<build, inp, ret, pc, logo_position, idx, image, stages,
                   zip_entries, result, pos_log>>

\* the caption widgets
SetCaption ==
    /\ pc = "idle"
    /\ ui.lower_text = <<>>
    /\ \E pos \in {"Bottom", "Right"} :
           ui' = [ui EXCEPT !.lower_text = <<"H", "i">>, !.lower_pos = pos]
    /\ UNCHANGED <<build, inp, ret, pc, logo_position, idx, image, stages,
                   zip_entries, result, pos_log>>

\* lines 159-164: the size of the preview of an image of size w x h
PreviewSize(w, h) ==
    IF w > max_width THEN <<(w * max_width) \div w, (h * max_width) \div w>>
    ELSE <<w, h>>

PreviewOf(img) ==
    [img EXCEPT !.w = PreviewSize(img.w, img.h)[1], !.h = PreviewSize(img.w, img.h)[2]]

\* lines 180-185: the position read from the canvas
CanvasPosition(canvas) ==
    IF canvas = NONE THEN NONE ELSE Pos(canvas.left, canvas.top)

\* A run of the script with "Process All Images" pressed, up to the call of
\* process_batch: the preview block (lines 151-192).  Opening the first file
\* or pasting the logo on the preview can raise, which ends the run.
PreviewBlock ==
    /\ pc = "idle"
    /\ N > 0
    /\ LET first == ui.uploaded_files[1]
           pos == IF ui.logo_file # NONE THEN CanvasPosition(ui.canvas) ELSE NONE
       IN  IF ~first.decodable THEN
               /\ pc' = "script_raised"
               /\ result' = Raised("UnidentifiedImageError")
               /\ UNCHANGED logo_position
           ELSE IF AddLogoRaises(PreviewOf(first.img), ui.logo_file, ui.logo_scale, pos) THEN
               /\ pc' = "script_raised"
               /\ result' = Raised("ValueError")
               /\ logo_position' = pos
           ELSE
               /\ pc' = "open"
               /\ logo_position' = pos
               /\ UNCHANGED result
    /\ UNCHANGED <<build, inp, ret, ui, idx, image, stages, zip_entries, pos_log>>

EntryName(n) == [stem |-> "edited_", n |-> n, ext |-> ".jpg"]

\* image.save(img_bytes, format="JPEG", quality=95): the bytes of the entry
Encode(img) == [format |-> "JPEG", quality |-> quality, of |-> img]

\* line 105, and the end of the loop (lines 116-117)
OpenImage ==
    /\ pc = "open"
    /\ IF idx = N THEN
           /\ pc' = "done"
           /\ result' = [zip |-> zip_entries]
           /\ UNCHANGED <<image, stages>>
       ELSE IF ~ui.uploaded_files[idx + 1].decodable THEN
           /\ pc' = "raised"
           /\ result' = Raised("UnidentifiedImageError")
           /\ UNCHANGED <<image, stages>>
       ELSE
           /\ pc' = "edits"
           /\ image' = ui.uploaded_files[idx + 1].img
           /\ stages' = <<>>
           /\ UNCHANGED result
    /\ UNCHANGED <<build, inp, ret, ui, logo_position, idx, zip_entries, pos_log>>

\* lines 106-107
StageEdits ==
    /\ pc = "edits"
    /\ image' \in apply_edits(image, ui.prm, build)
    /\ stages' = Append(stages, "apply_edits")
    /\ pc' = "logo"
    /\ UNCHANGED <<build, inp, ret, ui, logo_position, idx, zip_entries, result, pos_log>>

\* line 108
StageLogo ==
    /\ pc = "logo"
    /\ pos_log' = Append(pos_log, logo_position)
    /\ IF AddLogoRaises(image, ui.logo_file, ui.logo_scale, logo_position) THEN
           /\ pc' = "raised"
           /\ result' = Raised("ValueError")
           /\ UNCHANGED <<image, stages>>
       ELSE
           /\ image' = add_logo(image, ui.logo_file, ui.logo_scale, logo_position)
           /\ stages' = Append(stages, "add_logo")
           /\ pc' = "caption"
           /\ UNCHANGED result
    /\ UNCHANGED <<build, inp, ret, ui, logo_position, idx, zip_entries>>

\* line 109
StageCaption ==
    /\ pc = "caption"
    /\ image' = add_lower_third(image, ui.lower_text, ui.font_name, ui.font_size,
                                ui.font_color, ui.lower_pos)
    /\ stages' = Append(stages, "add_lower_third")
    /\ pc' = "save"
    /\ UNCHANGED <<build, inp, ret, ui, logo_position, idx, zip_entries, result, pos_log>>

\* lines 111-114
SaveEntry ==
    /\ pc = "save"
    /\ zip_entries' = Append(zip_entries,
                             [name |-> EntryName(idx + 1), data |-> Encode(image)])
    /\ idx' = idx + 1
    /\ pc' = "open"
    /\ UNCHANGED <<build, inp, ret, ui, logo_position, image, stages, result, pos_log>>

Next ==
    \/ Upload
    \/ SetLogo
    \/ DragLogo
    \/ SetCaption
    \/ PreviewBlock
    \/ OpenImage
    \/ StageEdits
    \/ StageLogo
    \/ StageCaption
    \/ SaveEntry

Spec == Init /\ [][Next]_vars

-----------------------------------------------------------------------------
(* Properties of the batch export (Spec) *)

\* the single-image pipeline on one image alone: the images it can give
SinglePipeline(img, u, pos, b) ==
    {add_lower_third(add_logo(e, u.logo_file, u.logo_scale, pos), u.lower_text,
                     u.font_name, u.font_size, u.font_color, u.lower_pos) :
        e \in apply_edits(img, u.prm, b)}

\* process_batch was called and has ended
BatchEnded == pc \in {"done", "raised"}

Decodable(i) == ui.uploaded_files[i].decodable

HasEntry(zip, n) == \E j \in DOMAIN zip : zip[j].name = EntryName(n)

CountKind(layers, kind) == Cardinality({j \in DOMAIN layers : layers[j].kind = kind})

\* C1: a file that cannot be opened does not abort the batch: process_batch
\* still returns an archive, and every other file has its entry in it.
C1_BadFileIsolated ==
    (BatchEnded /\ \E k \in 1..N : ~Decodable(k)) =>
        /\ pc = "done"
        /\ \A i \in 1..N : Decodable(i) => HasEntry(result.zip, i)

\* C2: for N decodable images process_batch returns an archive of exactly N
\* entries, named edited_1 .. edited_N in input order, entry i being the
\* encoding of the single-image pipeline applied to image i alone.
C2_ArchiveOfPipeline ==
    (BatchEnded /\ \A i \in 1..N : Decodable(i)) =>
        /\ pc = "done"
        /\ Len(result.zip) = N
        /\ \A i \in 1..N :
            /\ result.zip[i].name = EntryName(i)
            /\ \E o \in SinglePipeline(ui.uploaded_files[i].img, ui, logo_position, build) :
                   result.zip[i].data = Encode(o)

\* C3: a position dragged on a downscaled preview reaches add_logo, for the
\* export of that image, multiplied by exportWidth / previewWidth.
C3_PositionRescaled ==
    (Len(pos_log) >= 1 /\ ui.canvas # NONE /\ ui.uploaded_files[1].img.w > max_width) =>
        LET W == ui.uploaded_files[1].img.w
            pw == PreviewSize(W, ui.uploaded_files[1].img.h)[1]
        IN  pos_log[1] = Pos((ui.canvas.left * W) \div pw, (ui.canvas.top * W) \div pw)

LogoExpected == IF ui.logo_file # NONE /\ logo_position # NONE THEN 1 ELSE 0
TextExpected == IF ui.lower_text # <<>> THEN 1 ELSE 0

\* C10: every exported image went through apply_edits, add_logo and
\* add_lower_third, in this order and once each, before it was encoded; the
\* logo is on it once (when there is a logo to place), and each iteration
\* starts from the freshly opened file, with nothing of the last image on it.
C10_StagesOncePerImage ==
    /\ pc = "edits" => (image = ui.uploaded_files[idx + 1].img /\ stages = <<>>)
    /\ pc = "logo" => stages = <<"apply_edits">>
    /\ pc = "caption" => stages = <<"apply_edits", "add_logo">>
    /\ pc = "save" => stages = <<"apply_edits", "add_logo", "add_lower_third">>
    /\ \A i \in DOMAIN zip_entries :
        LET out == zip_entries[i].data.of
            src == ui.uploaded_files[i].img
        IN  /\ out.w = src.w /\ out.h = src.h /\ Len(out.px) = Len(src.px)
            /\ CountKind(out.layers, "logo") = LogoExpected
            /\ CountKind(out.layers, "text") = TextExpected
            /\ Len(out.layers) = LogoExpected + TextExpected
            /\ (LogoExpected = 1 /\ TextExpected = 1) => out.layers[1].kind = "logo"

C10_Witness ==
    /\ pc = "done"
    /\ N = 2
    /\ Len(result.zip) = 2
    /\ ui.uploaded_files[1] # ui.uploaded_files[2]
    /\ CountKind(result.zip[2].data.of.layers, "logo") = 1
    /\ CountKind(result.zip[2].data.of.layers, "text") = 1

-----------------------------------------------------------------------------
(* Properties of the functions (SpecFn) *)

Abs(x) == IF x < 0 THEN -x ELSE x

Called(fn) == inp.fn = fn /\ ret.fn = fn

\* C4: with effect = Sepia a pixel of luminance i, for every i in 0..255, is
\* mapped by the effect stage to exactly
\* (floor(i*240/255), floor(i*200/255), floor(i*145/255)).
C4_SepiaEveryLevel ==
    (Called("effect") /\ inp.effect = "Sepia") =>
        \A k \in DOMAIN inp.img.px :
            LET i == ToL(inp.img.px[k])
            IN  ret.out.px[k] = <<(i * 240) \div 255, (i * 200) \div 255, (i * 145) \div 255>>

\* C5: adjust_color_balance gives channel values in 0..255; a product
\* v * scale above 255 gives exactly 255; with the three scales 1 the output
\* is the input.
C5_BalanceClamped ==
    Called("adjust_color_balance") =>
        \A k \in DOMAIN inp.img.px : \A c \in 1..3 :
            LET v == inp.img.px[k][c]
                s == inp.scales[c]
                o == ret.out.px[k][c]
            IN  /\ o \in 0..255
                /\ (v * s > 255 * ScaleDen) => (o = 255)
                /\ (inp.scales = <<One, One, One>>) => (o = v)

C5_Witness ==
    /\ Called("adjust_color_balance")
    /\ inp.img.px[1][1] = 200
    /\ inp.scales[1] = 2 * One
    /\ ret.out.px[1][1] = 255

RecognizedEffects == {"Black & White", "Invert", "Sepia"}
RecognizedPositions == {"bottom", "top", "left", "right"}

\* C6: an unrecognized effect leaves the image as the effect stage found it,
\* and an unrecognized position draws the text where Bottom draws it:
\* centred horizontally, margin above the bottom edge.
C6_UnknownEnumFallsBack ==
    /\ (Called("effect") /\ inp.effect \notin RecognizedEffects) => (ret.out = inp.img)
    /\ (Called("add_lower_third") /\ inp.text # <<>>
            /\ Lower(inp.position) \notin RecognizedPositions) =>
        LET sz == TextSize(inp.text, load_font(inp.font_name, inp.font_size))
            drawn == ret.out.layers[Len(ret.out.layers)]
        IN  /\ Len(ret.out.layers) = Len(inp.img.layers) + 1
            /\ drawn.at = Pos((inp.img.w - sz[1]) \div 2, inp.img.h - sz[2] - margin)
            /\ ret.out = add_lower_third(inp.img, inp.text, inp.font_name, inp.font_size,
                                         inp.color, "Bottom")

C6_Witness ==
    /\ Called("add_lower_third")
    /\ inp.position = "Center"
    /\ inp.text = <<"H", "i">>
    /\ inp.img.w = 2000
    /\ inp.font_size = 40
    /\ inp.font_name = "Roboto"
    /\ ret.out.layers[1].at = Pos(980, 940)

\* C7: add_logo returns the base image unchanged when the logo is absent or
\* the position is None, whatever the scale; add_lower_third returns the
\* image unchanged when the text is empty, whatever the other arguments.
C7_MissingInputNoOp ==
    /\ (Called("add_logo") /\ (inp.logo_file = NONE \/ inp.pos = NONE)) =>
            (ret.out = inp.img)
    /\ (Called("add_lower_third") /\ inp.text = <<>>) => (ret.out = inp.img)

C7_Witness ==
    /\ Called("add_logo")
    /\ inp.logo_file # NONE
    /\ inp.pos = NONE
    /\ inp.scale = 25
    /\ ret.out = inp.img

\* C8: adjust_hue with shift 0.5 and with shift -0.5 give outputs that differ
\* by at most 1 in each channel, and every output channel is in 0..255.
C8_HueCircular ==
    Called("adjust_hue") =>
        \A k \in DOMAIN inp.img.px : \A c \in 1..3 :
            /\ ret.plus.px[k][c] \in 0..255
            /\ ret.minus.px[k][c] \in 0..255
            /\ Abs(ret.plus.px[k][c] - ret.minus.px[k][c]) <= 1

C8_Witness ==
    /\ Called("adjust_hue")
    /\ inp.img.px[1] = <<255, 0, ChanStep>>
    /\ ret.plus.px[1][1] = 0
    /\ ret.plus.px[1][2] = 255
    /\ ret.minus.px[1][2] = 254

\* C9: apply_edits with saturation = brightness = contrast = 1, effect None,
\* hue_shift 0 and the three scales 1 returns its input image, pixel for pixel.
C9_IdentityParams ==
    (Called("apply_edits") /\ inp.prm = IdentityParams) => (ret.out = inp.img)

C9_Witness ==
    /\ Called("apply_edits")
    /\ inp.prm = IdentityParams
    /\ inp.img.px = <<<<255, 0, 0>>, <<0, ChanStep, 255>>>>
    /\ ret.out = inp.img

====
